---- MODULE Spec2Model ----
(***************************************************************************)
(* Model of the tool-call orchestration core of cop-context:               *)
(*   context.py   Person, Context                                          *)
(*   handlers.py  create_person, update_person, lookup_person,             *)
(*                merge_persons, tool_handlers                             *)
(*   pipeline.py  get_completion, handle_tool_call, task_loop              *)
(*                                                                         *)
(* Python strings are sequences of one-character strings, so that lower()  *)
(* and the substring test of lookup_person are computed, not assumed.      *)
(* A Python dict is a function whose DOMAIN is the set of its keys.        *)
(***************************************************************************)
EXTENDS Integers, Sequences, FiniteSets, TLC

VARIABLES
    data,       \* Context.data of the store threaded through the turns
    messages,   \* the conversation state handed to task_loop
    pc,         \* position of task_loop: "idle", "await1", "await2", "done", "raised",
                \* or of update_person inside it: "rekey_pop", "rekey_insert", "rekey_done"
    calls,      \* the model-boundary calls get_completion made in this turn
    responses,  \* the answers of the model boundary to those calls
    final,      \* the value task_loop returned (NoReturn until it returns)
    dispatched, \* the tool calls handed to handle_tool_call in this turn
    turns,      \* number of turns started
    held,       \* the Person update_person holds while it re-keys it (None otherwise)
    observed    \* what a second reader of the store last saw of the people table

vars == <<data, messages, pc, calls, responses, final, dispatched, turns, held, observed>>

----------------------------------------------------------------------------
(* Bounds of the model *)

MaxTurns == 4       \* turns per behaviour of Spec
MaxQuoteTurns == 5  \* turns per behaviour of QuoteSpec
MaxRenameTurns == 3 \* turns per behaviour of RenameSpec
MaxSegments == 3    \* segments per transcript of TranscriptSpec
MaxQuotes == 2      \* update_person appends a quote to a person with fewer quotes

----------------------------------------------------------------------------
(* Python values *)

EmptyStr == <<>>
None == <<"#None">>          \* Python None (the default of an optional argument)
Int5 == <<"#5">>             \* the JSON number 5: a value that is not a str
JsonList == <<"#list">>      \* a JSON array given where a string is expected
Chars == {"A", "a", "B", "b", "d", "r", "s", "q", "p"}

IsStr(v) == \A i \in 1..Len(v) : v[i] \in Chars

\* a list cannot be a dict key: `k in d`, `d[k] = v` raise TypeError for it
Hashable(v) == v # JsonList

\* Python truthiness of a str, None or int 5
Truthy(v) == v # EmptyStr /\ v # None

LowerChar(c) == CASE c = "A" -> "a" [] c = "B" -> "b" [] OTHER -> c

\* str.lower()
Lower(s) == [i \in 1..Len(s) |-> LowerChar(s[i])]

\* the Python test `k in s` on two str
IsSubstr(k, s) ==
    \E i \in 0..(Len(s) - Len(k)) : \A j \in 1..Len(k) : s[i + j] = k[j]

EmptyDict == [k \in {} |-> None]

DictGet(d, k, default) == IF k \in DOMAIN d THEN d[k] ELSE default

\* dict.setdefault: a key already there keeps its value
DictSetDefault(d, k, v) == [x \in DOMAIN d \cup {k} |-> IF x \in DOMAIN d THEN d[x] ELSE v]

DictSet(d, k, v) == [x \in DOMAIN d \cup {k} |-> IF x = k THEN v ELSE d[x]]

\* a pop that leaves the key in place
DictPopKeeps(d, k) == d

DictPop(d, k) == [x \in DOMAIN d \ {k} |-> d[x]]

\* an update that adds the new keys and keeps the value of a key already there
DictUpdateKeeps(d, e) == [x \in DOMAIN d \cup DOMAIN e |-> IF x \in DOMAIN d THEN d[x] ELSE e[x]]

DictUpdate(d, e) == [x \in DOMAIN d \cup DOMAIN e |-> IF x \in DOMAIN e THEN e[x] ELSE d[x]]

----------------------------------------------------------------------------
(* context.py: Person *)

Person(name, description, role, speaker_id) ==
    [name |-> name, description |-> description, role |-> role,
     speaker_id |-> speaker_id, quotes |-> <<>>]

\* Person.add_data: every key that is an attribute is overwritten
add_data(self, kwargs) ==
    [f \in DOMAIN self |-> IF f \in DOMAIN kwargs THEN kwargs[f] ELSE self[f]]

\* an add_quote that suppresses a quote already held, as Person.merge does
add_quote_unique(self, quote) ==
    IF \E i \in 1..Len(self.quotes) : self.quotes[i] = quote
    THEN self ELSE [self EXCEPT !.quotes = Append(@, quote)]

add_quote(self, quote) == [self EXCEPT !.quotes = Append(@, quote)]

\* the loop of Person.merge over other.quotes
RECURSIVE MergeQuotes(_, _)
MergeQuotes(mine, theirs) ==
    IF theirs = <<>> THEN mine
    ELSE LET quote == Head(theirs) IN
         MergeQuotes(IF \E i \in 1..Len(mine) : mine[i] = quote
                     THEN mine ELSE Append(mine, quote),
                     Tail(theirs))

\* Person.merge with the test on the receiver's own value left out
MergeScalarOverwrite(mine, theirs) == IF Truthy(theirs) THEN theirs ELSE mine

MergeScalar(mine, theirs) == IF Truthy(theirs) /\ ~Truthy(mine) THEN theirs ELSE mine

merge(self, other) ==
    [name |-> MergeScalar(self.name, other.name),
     description |-> MergeScalar(self.description, other.description),
     role |-> MergeScalar(self.role, other.role),
     speaker_id |-> MergeScalar(self.speaker_id, other.speaker_id),
     quotes |-> MergeQuotes(self.quotes, other.quotes)]

\* Person.__str__
PersonStr(p) ==
    [name |-> p.name, description |-> p.description, role |-> p.role,
     quotes |-> Len(p.quotes)]

----------------------------------------------------------------------------
(* handlers.py *)

\* what a handler call leaves behind: the value returned or the exception
\* raised, and Context.data afterwards
Returns(result, d) == [exc |-> "none", result |-> result, data |-> d]
Raises(exc, d) == [exc |-> exc, result |-> [error |-> [kind |-> exc]], data |-> d]

ErrorResult(kind, who) == [error |-> [kind |-> kind, who |-> who]]

create_person(a, d) ==
    LET person == Person(a.name, a.description, a.role, a.speaker_id)
        people == DictSet(DictGet(d, "people", EmptyDict), a.name, person)
        d1 == DictSet(d, "people", people)
        d2 == DictUpdate(d1, [last_operation |-> "create_person",
                              last_result_summary |-> [what |-> "Created person", who |-> a.name]])
    IN  IF ~Hashable(a.name) THEN Raises("TypeError", d)
        ELSE Returns([status |-> "success", person_name |-> a.name,
                      details |-> PersonStr(person)], d2)

update_person(a, d) ==
    LET people == DictGet(d, "people", EmptyDict)
        person_name == a.person_name
    IN  IF ~Hashable(person_name) THEN Raises("TypeError", d)
        ELSE IF person_name \notin DOMAIN people
        THEN Returns(ErrorResult("update_not_found", person_name), d)
        ELSE
        LET person == people[person_name]
            original_name == person_name
            fields == {f \in {"description", "role", "speaker_id"} : a[f] # None}
                      \cup (IF a.name # None /\ a.name # person.name THEN {"name"} ELSE {})
            updates == [f \in fields |-> a[f]]
            rekey == "name" \in fields /\ updates["name"] # original_name
            key == IF rekey THEN updates["name"] ELSE original_name
            person1 == IF fields # {} THEN add_data(person, updates) ELSE person
            person2 == IF a.quote # None THEN add_quote(person1, a.quote) ELSE person1
            people1 == DictSet(IF rekey THEN DictPop(people, original_name) ELSE people,
                               key, person2)
            updated == fields # {} \/ a.quote # None
            d1 == DictSet(d, "people", people1)
            d2 == DictUpdate(d1, [last_operation |-> "update_person",
                                  last_result_summary |-> [what |-> "Updated person", who |-> person2.name]])
        IN  IF rekey /\ ~Hashable(key)
            \* people.pop(original_name) is done, people[new_name] = person raises:
            \* the dict the store holds has lost the entity
            THEN Raises("TypeError", DictSet(d, "people", DictPop(people, original_name)))
            ELSE IF ~updated
            THEN Returns([status |-> "no_change", message |-> original_name], d)
            ELSE Returns([status |-> "success", person_name |-> person2.name,
                          details |-> PersonStr(person2)], d2)

\* the test of lookup_person's loop for one item of people.items(); `or`
\* evaluates left to right and stops at the first true operand
LookupRaises(keyword_lower, name, person) ==
    \/ ~IsStr(name)
    \/ /\ ~IsSubstr(keyword_lower, Lower(name))
       /\ \/ ~IsStr(person.description)
          \/ /\ ~IsSubstr(keyword_lower, Lower(person.description))
             /\ ~IsStr(person.role)

LookupMatches(keyword_lower, name, person) ==
    \/ IsSubstr(keyword_lower, Lower(name))
    \/ IsSubstr(keyword_lower, Lower(person.description))
    \/ IsSubstr(keyword_lower, Lower(person.role))

\* `results` is the list built by the loop, kept as a function from the key of
\* each matching item to the summary appended for it (the list's order is the
\* dict's iteration order, which the model does not keep)
lookup_person(a, d) ==
    LET people == DictGet(d, "people", EmptyDict)
        keyword == a.keyword
    IN  IF ~IsStr(keyword) THEN Raises("AttributeError", d)
        ELSE
        LET keyword_lower == Lower(keyword) IN
        IF \E name \in DOMAIN people : LookupRaises(keyword_lower, name, people[name])
        THEN Raises("AttributeError", d)
        ELSE
        LET matched == {name \in DOMAIN people : LookupMatches(keyword_lower, name, people[name])}
            results == [name \in matched |->
                          [name |-> people[name].name, role |-> people[name].role,
                           description |-> people[name].description]]
            d1 == DictUpdate(d, [last_operation |-> "lookup_person",
                                 last_result_summary |-> [what |-> "Found", who |-> keyword,
                                                          n |-> Cardinality(matched)],
                                 search_keyword |-> keyword])
        IN  IF matched = {}
            THEN Returns([status |-> "no_matches", message |-> keyword], d1)
            ELSE Returns([status |-> "success", results |-> results,
                          count |-> Cardinality(matched)], d1)

\* the three tests with the self-merge test made first
MergeRefusalSelfFirst(people, source_name, target_name) ==
    IF source_name = target_name THEN "self_merge"
    ELSE IF source_name \notin DOMAIN people THEN "source_not_found"
    ELSE IF target_name \notin DOMAIN people THEN "target_not_found"
    ELSE "none"

\* the three tests merge_persons makes before it merges, in the order it
\* makes them: the error it returns, "none" when it goes on
MergeRefusal(people, source_name, target_name) ==
    IF source_name \notin DOMAIN people THEN "source_not_found"
    ELSE IF target_name \notin DOMAIN people THEN "target_not_found"
    ELSE IF source_name = target_name THEN "self_merge"
    ELSE "none"

merge_persons(a, d) ==
    LET people == DictGet(d, "people", EmptyDict)
        source_name == a.source_name
        target_name == a.target_name
        refusal == MergeRefusal(people, source_name, target_name)
    IN  IF ~Hashable(source_name) \/ ~Hashable(target_name) THEN Raises("TypeError", d)
        ELSE IF refusal # "none"
        THEN Returns(ErrorResult(refusal, IF refusal = "target_not_found"
                                          THEN target_name ELSE source_name), d)
        ELSE
        LET source_person == people[source_name]
            target_person == merge(people[target_name], source_person)
            people1 == DictPop(DictSet(people, target_name, target_person), source_name)
            d1 == DictSet(d, "people", people1)
            d2 == DictUpdate(d1, [last_operation |-> "merge_persons",
                                  last_result_summary |-> [what |-> "Merged", who |-> source_name,
                                                           into |-> target_name],
                                  merged_from |-> source_name,
                                  merged_to |-> target_name])
        IN  Returns([status |-> "success", merged_person_name |-> target_name,
                     details |-> PersonStr(target_person)], d2)

\* tool_handlers: the names the dispatcher resolves
tool_handlers == {"create_person", "update_person", "lookup_person", "merge_persons"}

\* the signatures of the handlers (`context` aside)
HandlerParams(tool) ==
    CASE tool = "create_person" -> {"name", "description", "role", "speaker_id"}
      [] tool = "update_person" -> {"person_name", "name", "description", "role",
                                    "speaker_id", "quote"}
      [] tool = "lookup_person" -> {"keyword"}
      [] tool = "merge_persons" -> {"source_name", "target_name"}

HandlerRequired(tool) ==
    CASE tool = "create_person" -> {"name"}
      [] tool = "update_person" -> {"person_name"}
      [] tool = "lookup_person" -> {"keyword"}
      [] tool = "merge_persons" -> {"source_name", "target_name"}

HandlerDefault(tool) == IF tool = "create_person" THEN EmptyStr ELSE None

\* Python's binding of handler(**args_dict, context=context): a keyword the
\* signature lacks, a second value for `context`, or a missing required
\* parameter raises TypeError before the body runs
BindFails(tool, args_dict) ==
    \/ \E k \in DOMAIN args_dict : k \notin HandlerParams(tool)
    \/ \E k \in HandlerRequired(tool) : k \notin DOMAIN args_dict

Bind(tool, args_dict) ==
    [k \in HandlerParams(tool) |->
        IF k \in DOMAIN args_dict THEN args_dict[k] ELSE HandlerDefault(tool)]

HandlerBody(tool, a, d) ==
    CASE tool = "create_person" -> create_person(a, d)
      [] tool = "update_person" -> update_person(a, d)
      [] tool = "lookup_person" -> lookup_person(a, d)
      [] tool = "merge_persons" -> merge_persons(a, d)

\* a call handler(**args_dict, context=context)
CallHandler(tool, args_dict, d) ==
    IF BindFails(tool, args_dict) THEN Raises("TypeError", d)
    ELSE HandlerBody(tool, Bind(tool, args_dict), d)

----------------------------------------------------------------------------
(* pipeline.py: handle_tool_call *)

\* The raw argument payload of a tool call is text; the model keeps what
\* json.loads makes of it: kind "garbage" is text that is no JSON document,
\* kind "array" a JSON document that is no object, kind "object" a JSON
\* object whose members are obj.
json_loads(arguments) ==
    [decoded |-> arguments.kind # "garbage",
     is_dict |-> arguments.kind = "object",
     value |-> arguments.obj]

\* a result message in the older function-call format, which has no id
ToolMsgAsFunction(id, content) == [role |-> "function", content |-> content]

ToolMsg(id, content) == [role |-> "tool", tool_call_id |-> id, content |-> content]

\* an error text that names neither the tool nor the payload
InvalidJsonErrorBare(tool_name, raw) == [error |-> [kind |-> "invalid_json"]]

\* the error content for arguments json.loads rejects: it carries the tool
\* name and the raw arguments
InvalidJsonError(tool_name, raw) ==
    [error |-> [kind |-> "invalid_json", tool |-> tool_name, raw |-> raw]]

\* an error text that does not name the tool
UnknownToolErrorBare(tool_name) == [error |-> [kind |-> "unknown_tool"]]

\* the error content for a name that is not in tool_handlers
UnknownToolError(tool_name) == [error |-> [kind |-> "unknown_tool", tool |-> tool_name]]

\* a dispatcher that looks the tool up before it parses the arguments
DispatchBranchResolveFirst(tool_name, parsed) ==
    IF tool_name \notin tool_handlers THEN "unknown_tool"
    ELSE IF ~parsed.decoded THEN "invalid_json"
    ELSE "handler"

\* the branch handle_tool_call takes: json.loads comes first, the lookup in
\* tool_handlers second
DispatchBranch(tool_name, parsed) ==
    IF ~parsed.decoded THEN "invalid_json"
    ELSE IF tool_name \in tool_handlers THEN "handler"
    ELSE "unknown_tool"

\* exc is "none" when handle_tool_call returns, else the exception that
\* leaves it
handle_tool_call(tool_call, d) ==
    LET tool_name == tool_call.name
        parsed == json_loads(tool_call.arguments)
        branch == DispatchBranch(tool_name, parsed)
    IN  IF branch = "invalid_json"
        THEN [exc |-> "none", result |-> None, data |-> d,
              msg |-> ToolMsg(tool_call.id,
                              InvalidJsonError(tool_name, tool_call.arguments))]
        ELSE IF branch = "handler"
        THEN LET r == IF parsed.is_dict THEN CallHandler(tool_name, parsed.value, d)
                      ELSE Raises("TypeError", d)
             IN  IF r.exc = "TypeError"
                 THEN [exc |-> "none", result |-> None, data |-> r.data,
                       msg |-> ToolMsg(tool_call.id,
                                       [error |-> [kind |-> "handler_type_error",
                                                   tool |-> tool_name]])]
                 ELSE IF r.exc # "none"
                 THEN [exc |-> r.exc, result |-> None, data |-> r.data,
                       msg |-> ToolMsg(tool_call.id, [error |-> [kind |-> r.exc]])]
                 ELSE [exc |-> "none", result |-> r.result, data |-> r.data,
                       msg |-> ToolMsg(tool_call.id, [result |-> r.result])]
        ELSE [exc |-> "none", result |-> None, data |-> d,
              msg |-> ToolMsg(tool_call.id,
                              UnknownToolError(tool_name))]

----------------------------------------------------------------------------
(* tools.py: tool_definitions *)

Schema(name, properties, required) ==
    [name |-> name, properties |-> properties, required |-> required]

\* a registry whose update_person schema offers a parameter the handler lacks
tool_definitions_drifted ==
    << Schema("create_person", {"name", "description", "role", "speaker_id"}, {"name"}),
       Schema("update_person", {"person_name", "name", "description", "role",
                                "speaker_id", "quote", "nickname"}, {"person_name"}),
       Schema("lookup_person", {"keyword"}, {"keyword"}),
       Schema("merge_persons", {"source_name", "target_name"},
              {"source_name", "target_name"}) >>

\* tool_schemas_list of task_loop: the "function" entry of every definition
tool_definitions ==
    << Schema("create_person", {"name", "description", "role", "speaker_id"}, {"name"}),
       Schema("update_person", {"person_name", "name", "description", "role",
                                "speaker_id", "quote"}, {"person_name"}),
       Schema("lookup_person", {"keyword"}, {"keyword"}),
       Schema("merge_persons", {"source_name", "target_name"},
              {"source_name", "target_name"}) >>

----------------------------------------------------------------------------
(* What the model boundary may answer *)

NameE == EmptyStr
NameA == <<"A">>
NameB == <<"B">>
Names == {NameE, NameA, NameB}
Desc == <<"d">>
Role == <<"r">>
Sid == <<"s">>
QuoteQ == <<"q">>
QuoteP == <<"p">>
Quotes == {QuoteQ, QuoteP}
AnswerP == <<"p">>
AnswerQ == <<"q">>
Answers == {AnswerP, AnswerQ}

Garbage == [kind |-> "garbage", obj |-> EmptyDict]
Array == [kind |-> "array", obj |-> EmptyDict]
Obj(members) == [kind |-> "object", obj |-> members]

Request(name, arguments) == [name |-> name, arguments |-> arguments]

CreateOptions ==
    { EmptyDict,
      ("description" :> Desc),
      ("description" :> Desc) @@ ("role" :> Role) @@ ("speaker_id" :> Sid) }

\* a create_person call that gives a name and a role and nothing else
CreateWithRole == Request("create_person", Obj(("name" :> NameA) @@ ("role" :> Role)))

CreateRequests ==
    { Request("create_person", Obj(("name" :> n) @@ o)) : n \in Names, o \in CreateOptions }
    \cup {CreateWithRole}

UpdateOptions ==
    { EmptyDict,
      ("description" :> Desc),
      ("description" :> EmptyStr),
      ("quote" :> QuoteQ),
      ("quote" :> QuoteP),
      ("role" :> Role) @@ ("speaker_id" :> Sid) }

RenameOptions == {EmptyDict} \cup { ("name" :> n) : n \in {NameA, NameB} }

UpdateRequests ==
    { Request("update_person", Obj(("person_name" :> n) @@ r @@ o)) :
        n \in Names, r \in RenameOptions, o \in UpdateOptions }

LookupRequests ==
    { Request("lookup_person", Obj(("keyword" :> k))) :
        k \in {EmptyStr, <<"a">>, Desc, Int5} }

MergeRequests ==
    { Request("merge_persons", Obj(("source_name" :> s) @@ ("target_name" :> t))) :
        s \in Names, t \in Names }

\* invocations the dispatcher has to turn into error results
MalformedRequests ==
    { Request("create_person", Garbage),
      Request("delete_person", Garbage),
      Request("lookup_person", Array),
      Request("delete_person", Obj(("name" :> NameA))),
      Request("create_person", Obj(("role" :> Role))),
      Request("merge_persons", Obj(("source_name" :> NameA))),
      Request("update_person", Obj(("person_name" :> NameA) @@ ("nickname" :> QuoteQ))),
      Request("update_person", Obj(("person_name" :> NameA) @@ ("name" :> JsonList))),
      Request("lookup_person", Obj(("keyword" :> Desc) @@ ("context" :> NameA))) }

Requests ==
    CreateRequests \cup UpdateRequests \cup LookupRequests \cup MergeRequests
    \cup MalformedRequests

\* the requests that follow the first one in a response with several
FirstOfSeveral ==
    { Request("create_person", Obj(("name" :> NameA))),
      Request("lookup_person", Obj(("keyword" :> Int5))),
      Request("delete_person", Garbage) }

RestOfSeveral ==
    { Request("create_person", Obj(("name" :> NameB))),
      Request("merge_persons", Obj(("source_name" :> NameA) @@ ("target_name" :> NameB))) }

ToolCall(id, r) == [id |-> id, type |-> "function", name |-> r.name, arguments |-> r.arguments]

\* the tool_calls of a response; <<>> stands for None as well as for []
ToolCallLists ==
    {<<>>}
    \cup { <<ToolCall("call_1", r)>> : r \in Requests }
    \cup { <<ToolCall("call_1", r), ToolCall("call_2", e)>> :
             r \in FirstOfSeveral, e \in RestOfSeveral }

\* choices[0].message of a completion
Responses ==
    { [content |-> c, tool_calls |-> <<>>] : c \in Answers }
    \cup { [content |-> None, tool_calls |-> t] : t \in ToolCallLists \ {<<>>} }
    \cup { [content |-> AnswerP, tool_calls |-> <<ToolCall("call_1", r)>>] : r \in LookupRequests }

\* choices[0].message of the follow-up completion
FollowUpResponses ==
    { [content |-> AnswerP, tool_calls |-> <<>>],
      [content |-> AnswerQ,
       tool_calls |-> <<ToolCall("call_3", Request("create_person", Obj(("name" :> NameB))))>>] }

----------------------------------------------------------------------------
(* pipeline.py: get_completion, task_loop, run_pipeline *)

Auto == <<"auto">>
NoTools == <<>>
NoReturn == <<"#noreturn">>
SystemMsg == [role |-> "system", content |-> <<"s">>]
UserMsg == [role |-> "user", content |-> <<"q">>]

\* completion_args of get_completion, the request sent to the model boundary
get_completion(msgs, tools, tool_choice) ==
    [model |-> "gpt-4o-mini", messages |-> msgs]
    @@ (IF tools # NoTools
        THEN ("tools" :> tools)
             @@ (IF tool_choice # None THEN ("tool_choice" :> tool_choice) ELSE EmptyDict)
        ELSE EmptyDict)

\* the first call of task_loop
FirstCompletion(msgs) == get_completion(msgs, tool_definitions, Auto)

\* a follow-up call that sends the catalog again
FollowUpWithTools(msgs) == get_completion(msgs, tool_definitions, Auto)

\* the follow-up call of task_loop
FollowUpCompletion(msgs) == get_completion(msgs, NoTools, None)

\* a loop over every tool call of the response
ToolCallsAll(tool_calls) == tool_calls

\* the tool calls of the response that task_loop hands to handle_tool_call
ToolCallsHandled(tool_calls) == <<tool_calls[1]>>

\* an assistant message that keeps the tool calls and drops the text
AssistantMsgNoContent(response) ==
    [role |-> "assistant", content |-> None, tool_calls |-> response.tool_calls]

AssistantMsg(response) ==
    [role |-> "assistant", content |-> response.content, tool_calls |-> response.tool_calls]

FinalMsg(final_content) == [role |-> "assistant", content |-> final_content]

\* handle_tool_call on each of `todo` in turn, each result appended to the
\* messages; stops at the first exception that leaves handle_tool_call
RECURSIVE HandleToolCalls(_, _, _, _)
HandleToolCalls(todo, d, msgs, done) ==
    IF todo = <<>> THEN [exc |-> "none", data |-> d, messages |-> msgs, dispatched |-> done]
    ELSE LET r == handle_tool_call(Head(todo), d) IN
         IF r.exc # "none"
         THEN [exc |-> r.exc, data |-> r.data, messages |-> msgs,
               dispatched |-> Append(done, Head(todo))]
         ELSE HandleToolCalls(Tail(todo), r.data, Append(msgs, r.msg),
                              Append(done, Head(todo)))

\* an update_person request on a person whose quotes are at the bound
QuoteBound(tool_calls, d) ==
    \A i \in 1..Len(tool_calls) :
        LET c == tool_calls[i]
            people == DictGet(d, "people", EmptyDict) IN
        (/\ c.name = "update_person"
         /\ c.arguments.kind = "object"
         /\ "quote" \in DOMAIN c.arguments.obj
         /\ "person_name" \in DOMAIN c.arguments.obj
         /\ c.arguments.obj["person_name"] \in DOMAIN people)
        => Len(people[c.arguments.obj["person_name"]].quotes) < MaxQuotes

\* the second reader has not read the people table
NotRead == [read |-> FALSE, keys |-> {}]

Init ==
    /\ data = EmptyDict
    /\ messages = <<>>
    /\ pc = "idle"
    /\ calls = <<>>
    /\ responses = <<>>
    /\ final = NoReturn
    /\ dispatched = <<>>
    /\ turns = 0
    /\ held = None
    /\ observed = NotRead

\* task_loop is entered with a new conversation and the store d and makes its
\* first call
TaskLoopEnter(d, bound) ==
    /\ pc \in {"idle", "done"}
    /\ turns < bound
    /\ turns' = turns + 1
    /\ data' = d
    /\ messages' = <<SystemMsg, UserMsg>>
    /\ calls' = <<FirstCompletion(messages')>>
    /\ responses' = <<>>
    /\ final' = NoReturn
    /\ dispatched' = <<>>
    /\ pc' = "await1"
    /\ UNCHANGED <<held, observed>>

\* the first completion arrives: task_loop up to its return or its follow-up call
TaskLoopFirst(response) ==
    /\ pc = "await1"
    /\ responses' = Append(responses, response)
    /\ LET msgs1 == Append(messages, AssistantMsg(response)) IN
       IF response.tool_calls = <<>>
       THEN /\ messages' = msgs1
            /\ final' = response.content
            /\ pc' = "done"
            /\ UNCHANGED <<data, calls, dispatched, turns, held, observed>>
       ELSE /\ QuoteBound(response.tool_calls, data)
            /\ LET h == HandleToolCalls(ToolCallsHandled(response.tool_calls), data, msgs1, <<>>) IN
               /\ data' = h.data
               /\ messages' = h.messages
               /\ dispatched' = h.dispatched
               /\ IF h.exc # "none"
                  THEN /\ pc' = "raised"
                       /\ UNCHANGED calls
                  ELSE /\ pc' = "await2"
                       /\ calls' = Append(calls, FollowUpCompletion(h.messages))
               /\ UNCHANGED <<final, turns, held, observed>>

\* the content of the first response taken for the final answer
FinalContentOfFirst(first, follow_up) == first.content

\* the value task_loop returns after its follow-up completion
FinalContent(first, follow_up) == follow_up.content

\* the follow-up completion arrives: task_loop appends it and returns
TaskLoopSecond(response) ==
    /\ pc = "await2"
    /\ responses' = Append(responses, response)
    /\ LET final_content == FinalContent(responses[1], response) IN
       /\ messages' = Append(messages, FinalMsg(final_content))
       /\ final' = final_content
    /\ pc' = "done"
    /\ UNCHANGED <<data, calls, dispatched, turns, held, observed>>

\* a caller that threads its store through calls task_loop again
NextTurn == TaskLoopEnter(data, MaxTurns)

\* a run_pipeline that takes the store of the run before it
RunPipelineShared == TaskLoopEnter(data, MaxTurns)

\* run_pipeline: a fresh Context and a fresh conversation
RunPipeline == TaskLoopEnter(EmptyDict, MaxTurns)

FirstResponse == \E response \in Responses : TaskLoopFirst(response)

SecondResponse == \E response \in FollowUpResponses : TaskLoopSecond(response)

Next == NextTurn \/ RunPipeline \/ FirstResponse \/ SecondResponse

Spec == Init /\ [][Next]_vars

----------------------------------------------------------------------------
(* A longer session of the same program in which the model boundary asks    *)
(* only for the calls that build and merge quote lists.                     *)

QuoteRequests ==
    { Request("create_person", Obj(("name" :> n))) : n \in {NameA, NameB} }
    \cup { Request("update_person", Obj(("person_name" :> n) @@ ("quote" :> q))) :
             n \in {NameA, NameB}, q \in Quotes }
    \cup { Request("merge_persons", Obj(("source_name" :> NameA) @@ ("target_name" :> NameB))),
           Request("merge_persons", Obj(("source_name" :> NameB) @@ ("target_name" :> NameA))) }

QuoteResponses ==
    { [content |-> None, tool_calls |-> <<ToolCall("call_1", r)>>] : r \in QuoteRequests }

QuoteTurn == TaskLoopEnter(data, MaxQuoteTurns)

QuoteFirstResponse == \E response \in QuoteResponses : TaskLoopFirst(response)

QuoteSecondResponse ==
    TaskLoopSecond([content |-> AnswerP, tool_calls |-> <<>>])

QuoteNext == QuoteTurn \/ QuoteFirstResponse \/ QuoteSecondResponse

QuoteSpec == Init /\ [][QuoteNext]_vars

----------------------------------------------------------------------------
(* The program of main.py: every turn is a call of run_pipeline.            *)

RunNext == RunPipeline \/ FirstResponse \/ SecondResponse

RunSpec == Init /\ [][RunNext]_vars

----------------------------------------------------------------------------
(* update_person statement by statement where it re-keys an entity, with a  *)
(* second reader of the same store that may read the people table between   *)
(* any two statements. The turns before build the store with create_person. *)

\* context.get("people", {})
PeopleOf(d) == DictGet(d, "people", EmptyDict)

RenameRequests ==
    { Request("update_person", Obj(("person_name" :> o) @@ ("name" :> n))) :
        o \in Names, n \in {NameA, NameB} }

CreateResponses ==
    { [content |-> None, tool_calls |-> <<ToolCall("call_1", r)>>] : r \in CreateRequests }

RekeyPositions == {"rekey_pop", "rekey_insert", "rekey_done"}

\* the key update_person was called for and the name it was given
OldKey == dispatched[1].arguments.obj["person_name"]
NewKey == dispatched[1].arguments.obj["name"]

\* the first completion asks for a rename that re-keys: task_loop appends the
\* assistant message and calls the handler, which runs up to and including
\* person.add_data(**updates)
UpdatePersonAddData(r) ==
    LET response == [content |-> None, tool_calls |-> <<ToolCall("call_1", r)>>]
        people == PeopleOf(data)
        o == r.arguments.obj["person_name"]
        n == r.arguments.obj["name"] IN
    /\ pc = "await1"
    /\ o \in DOMAIN people
    /\ n # people[o].name
    /\ n # o
    /\ responses' = Append(responses, response)
    /\ messages' = Append(messages, AssistantMsg(response))
    /\ dispatched' = ToolCallsHandled(response.tool_calls)
    /\ held' = add_data(people[o], ("name" :> n))
    /\ data' = DictSet(data, "people", DictSet(people, o, held'))
    /\ observed' = NotRead
    /\ pc' = "rekey_pop"
    /\ UNCHANGED <<calls, final, turns>>

\* people.pop(original_name)
UpdatePersonPop ==
    /\ pc = "rekey_pop"
    /\ data' = DictSet(data, "people", DictPop(PeopleOf(data), OldKey))
    /\ pc' = "rekey_insert"
    /\ UNCHANGED <<messages, calls, responses, final, dispatched, turns, held, observed>>

\* people[new_name] = person
UpdatePersonInsert ==
    /\ pc = "rekey_insert"
    /\ data' = DictSet(data, "people", DictSet(PeopleOf(data), NewKey, held))
    /\ pc' = "rekey_done"
    /\ UNCHANGED <<messages, calls, responses, final, dispatched, turns, held, observed>>

\* the rest of update_person, of handle_tool_call and of task_loop up to the
\* follow-up call
UpdatePersonReturn ==
    /\ pc = "rekey_done"
    /\ data' = DictUpdate(data, [last_operation |-> "update_person",
                                 last_result_summary |-> [what |-> "Updated person",
                                                          who |-> held.name]])
    /\ messages' = Append(messages,
                          ToolMsg(dispatched[1].id,
                                  [result |-> [status |-> "success", person_name |-> held.name,
                                               details |-> PersonStr(held)]]))
    /\ calls' = Append(calls, FollowUpCompletion(messages'))
    /\ held' = None
    /\ pc' = "await2"
    /\ UNCHANGED <<responses, final, dispatched, turns, observed>>

\* the second reader reads the keys of the people table
ConcurrentRead ==
    /\ pc \in RekeyPositions
    /\ observed' = [read |-> TRUE, keys |-> DOMAIN PeopleOf(data)]
    /\ UNCHANGED <<data, messages, pc, calls, responses, final, dispatched, turns, held>>

RenameTurn == TaskLoopEnter(data, MaxRenameTurns)

CreateFirstResponse == \E response \in CreateResponses : TaskLoopFirst(response)

RenameFirstResponse == \E r \in RenameRequests : UpdatePersonAddData(r)

RenameNext ==
    \/ RenameTurn
    \/ CreateFirstResponse
    \/ RenameFirstResponse
    \/ UpdatePersonPop
    \/ UpdatePersonInsert
    \/ UpdatePersonReturn
    \/ ConcurrentRead
    \/ QuoteSecondResponse

RenameSpec == Init /\ [][RenameNext]_vars

----------------------------------------------------------------------------
(* main.py: build_context_from_transcript. A text is a str kept as the      *)
(* sequence of its parts, a part being a phrase the name patterns may match *)
(* or other words; a speaker id is the letter S and a digit.                *)

True == <<"#True">>

SpeakerIds == {<<"S", "1">>, <<"S", "2">>, <<"S", "3">>}

Texts == { <<"hello">>, <<"I am ", "Robert Chen">>, <<"this is ", "officer johnson">> }

\* segment.get("speaker") is None for a segment without speaker
Segments == [speaker : SpeakerIds \cup {None}, text : Texts]

\* str.lower of a part
LowerPart(part) ==
    CASE part = "Robert Chen" -> "robert chen"
      [] part = "Officer Johnson" -> "officer johnson"
      [] part = "Sergeant Martinez" -> "sergeant martinez"
      [] OTHER -> part

\* name_patterns: the phrase each pattern matches, in lower case (the
\* patterns are compiled with re.IGNORECASE)
name_patterns ==
    (<<"S", "1">> :> "officer johnson") @@ (<<"S", "2">> :> "robert chen")
    @@ (<<"S", "4">> :> "sergeant martinez")

\* pattern.search(text): the positions of the parts the pattern matches
Matches(pattern, text) == {i \in 1..Len(text) : LowerPart(text[i]) = pattern}

\* match.group(0): the matched phrase as the text writes it
Group0(pattern, text) ==
    LET i == CHOOSE i \in Matches(pattern, text) : \A j \in Matches(pattern, text) : i <= j
    IN  <<text[i]>>

\* the role the code derives from an extracted name ("" where it sets none)
RoleFor(extracted_name, role) ==
    CASE extracted_name = <<"Officer Johnson">> -> <<"Police Officer">>
      [] extracted_name = <<"Sergeant Martinez">> -> <<"Police Sergeant">>
      [] extracted_name = <<"Robert Chen">> -> <<"Civilian Driver">>
      [] OTHER -> role

\* one pass of the loop over transcript_data["segments"]
ProcessSegment(people, segment) ==
    LET speaker_id == segment.speaker IN
    IF ~Truthy(speaker_id) THEN people
    ELSE
    LET known == IF speaker_id \in DOMAIN people THEN people
                 ELSE DictSet(people, speaker_id,
                              [Person(<<"Speaker ">> \o Tail(speaker_id), EmptyStr, EmptyStr,
                                      EmptyStr) EXCEPT !.speaker_id = speaker_id])
        person == add_quote(known[speaker_id], segment.text)
        person1 ==
            IF speaker_id \in DOMAIN name_patterns
            THEN IF Matches(name_patterns[speaker_id], segment.text) # {}
                 THEN LET extracted_name == Group0(name_patterns[speaker_id], segment.text) IN
                      IF person.name # extracted_name
                      THEN [person EXCEPT !.name = extracted_name,
                                          !.role = RoleFor(extracted_name, person.role)]
                      ELSE person
                 ELSE IF speaker_id = <<"S", "2">> /\ ~Truthy(person.role)
                 THEN [person EXCEPT !.role = <<"Civilian Driver">>]
                 ELSE IF speaker_id = <<"S", "3">> /\ ~Truthy(person.role)
                 THEN [person EXCEPT !.role = <<"Witness">>]
                 ELSE person
            ELSE person
    IN  DictSet(known, speaker_id, person1)

RECURSIVE ProcessSegments(_, _)
ProcessSegments(people, segments) ==
    IF segments = <<>> THEN people
    ELSE ProcessSegments(ProcessSegment(people, Head(segments)), Tail(segments))

\* transcript_data is a dict: the empty dict, or one with the key "segments"
build_context_from_transcript(transcript_data) ==
    IF "segments" \notin DOMAIN transcript_data THEN EmptyDict
    ELSE DictSet(DictSet(DictSet(EmptyDict, "people",
                                 ProcessSegments(EmptyDict, transcript_data["segments"])),
                         "transcript_processed", True),
                 "original_transcript_metadata", None)

RECURSIVE SeqsUpTo(_, _)
SeqsUpTo(S, n) ==
    IF n = 0 THEN {<<>>}
    ELSE SeqsUpTo(S, n - 1) \cup {Append(q, x) : q \in {t \in SeqsUpTo(S, n - 1) : Len(t) = n - 1}, x \in S}

Transcripts ==
    {EmptyDict} \cup { ("segments" :> segments) : segments \in SeqsUpTo(Segments, MaxSegments) }

\* main.py builds its initial context from a transcript
BuildContext ==
    /\ pc = "idle"
    /\ \E transcript_data \in Transcripts :
         data' = build_context_from_transcript(transcript_data)
    /\ pc' = "seeded"
    /\ UNCHANGED <<messages, calls, responses, final, dispatched, turns, held, observed>>

TranscriptSpec == Init /\ [][BuildContext]_vars

----------------------------------------------------------------------------
(* Properties *)

\* the step of task_loop that dispatched a tool call and came back from it
Dispatched == pc = "await1" /\ pc' = "await2"

\* the tool call that step dispatched, and the content of the tool-result
\* message it appended
TheCall == dispatched'[1]
TheContent == messages'[Len(messages')].content

IsWellFormed(call, tool) ==
    /\ call.name = tool
    /\ call.arguments.kind = "object"
    /\ HandlerRequired(tool) \subseteq DOMAIN call.arguments.obj

StatusOf(content) ==
    IF "result" \in DOMAIN content /\ "status" \in DOMAIN content.result
    THEN content.result.status ELSE "error"

Elems(seq) == {seq[i] : i \in 1..Len(seq)}

NoDuplicates(seq) == \A i, j \in 1..Len(seq) : seq[i] = seq[j] => i = j

\* C1: when task_loop makes its follow-up call, the conversation it sends holds,
\* for every invocation id of the assistant's tool-request message, a
\* tool-result message with that id.
C1_EveryRequestAnswered ==
    \A c \in 2..Len(calls) :
        LET msgs == calls[c].messages IN
        \A i \in 1..Len(msgs) :
            (msgs[i].role = "assistant" /\ "tool_calls" \in DOMAIN msgs[i]) =>
                \A t \in 1..Len(msgs[i].tool_calls) :
                    \E j \in (i + 1)..Len(msgs) :
                        /\ msgs[j].role = "tool"
                        /\ msgs[j].tool_call_id = msgs[i].tool_calls[t].id

\* C2: in every store the program reaches, handle_tool_call returns a
\* tool-result message for every request, and no exception leaves it.
C2_DispatcherReturnsData ==
    \A r \in Requests :
        LET h == handle_tool_call(ToolCall("call_1", r), data) IN
        /\ h.exc = "none"
        /\ h.msg.role = "tool"

\* C3: no turn of task_loop ends in an exception.
C3_TurnNeverRaises == pc # "raised"

\* C4: a turn makes at most two model-boundary calls; the first carries the
\* tool catalog and the directive "auto"; a second one is made only after a
\* response with tool requests and carries no catalog; when task_loop returns
\* it has made one call if the first response had no tool request and two if
\* it had, and it returns the content of the answer to its last call.
C4_CallProtocol ==
    /\ Len(calls) <= 2
    /\ Len(calls) >= 1 =>
         /\ "tools" \in DOMAIN calls[1] /\ calls[1].tools = tool_definitions
         /\ "tool_choice" \in DOMAIN calls[1] /\ calls[1].tool_choice = Auto
    /\ Len(calls) = 2 =>
         /\ "tools" \notin DOMAIN calls[2]
         /\ "tool_choice" \notin DOMAIN calls[2]
         /\ responses[1].tool_calls # <<>>
    /\ pc = "done" =>
         /\ Len(calls) = (IF responses[1].tool_calls = <<>> THEN 1 ELSE 2)
         /\ Len(responses) = Len(calls)
         /\ final = responses[Len(responses)].content

\* a turn of two calls has returned, and the second answer carried a tool request
C4_Witness ==
    /\ pc = "done"
    /\ Len(calls) = 2
    /\ responses[2].tool_calls # <<>>
    /\ final = AnswerQ

\* C5: when the first response carries several tool requests, the turn
\* dispatches the first one and no other, and leaves the store as the
\* dispatch of the first request alone leaves it.
C5_OnlyFirstDispatched ==
    [][(pc = "await1" /\ pc' # "await1" /\ Len(responses'[1].tool_calls) > 1) =>
         LET first == responses'[1].tool_calls[1] IN
         /\ dispatched' = <<first>>
         /\ data' = handle_tool_call(first, data).data]_vars

\* a turn whose first response asked for create_person(A) and then for
\* create_person(B) has returned, and the store holds A and not B
C5_Witness ==
    /\ pc = "done"
    /\ Len(responses[1].tool_calls) = 2
    /\ responses[1].tool_calls[2].name = "create_person"
    /\ DOMAIN PeopleOf(data) = {NameA}

\* C6: merge_persons with source_name equal to target_name returns the
\* self-merge error and leaves the store as it was.
C6_SelfMergeAlwaysRejected ==
    [][(/\ Dispatched
        /\ IsWellFormed(TheCall, "merge_persons")
        /\ TheCall.arguments.obj["source_name"] = TheCall.arguments.obj["target_name"]) =>
         /\ TheContent = [result |-> ErrorResult("self_merge", TheCall.arguments.obj["source_name"])]
         /\ data' = data]_vars

\* C7: every key of the people table is the name of the entity it maps to.
C7_NameIsKey ==
    \A k \in DOMAIN PeopleOf(data) : PeopleOf(data)[k].name = k

\* C8: after a successful update_person(person_name = o, name = n) with n # o
\* the people table has no key o and holds under n, and under no other key,
\* the entity renamed to n with the quotes it had.
C8_RenameRekeys ==
    [][(/\ Dispatched
        /\ IsWellFormed(TheCall, "update_person")
        /\ "name" \in DOMAIN TheCall.arguments.obj
        /\ TheCall.arguments.obj["name"] # TheCall.arguments.obj["person_name"]
        /\ StatusOf(TheContent) = "success") =>
         LET o == TheCall.arguments.obj["person_name"]
             n == TheCall.arguments.obj["name"]
             after == PeopleOf(data') IN
         /\ o \notin DOMAIN after
         /\ n \in DOMAIN after
         /\ after[n].name = n
         /\ "quote" \notin DOMAIN TheCall.arguments.obj =>
                after[n].quotes = PeopleOf(data)[o].quotes
         /\ \A k \in DOMAIN after : after[k].name = n => k = n]_vars

\* C9: update_person for an existing person with no recognized field and no
\* quote, whatever other argument names the request carries, yields status
\* no_change.
C9_NoFieldsNoChange ==
    [][(/\ pc = "await1" /\ pc' # "await1"
        /\ dispatched' # <<>>
        /\ IsWellFormed(TheCall, "update_person")
        /\ TheCall.arguments.obj["person_name"] \in DOMAIN PeopleOf(data)
        /\ DOMAIN TheCall.arguments.obj
             \cap {"name", "description", "role", "speaker_id", "quote"} = {}) =>
         /\ pc' = "await2"
         /\ StatusOf(TheContent) = "no_change"]_vars

\* C10: after a successful merge_persons(source, target) the quotes of the
\* target are the strings that were in the quotes of either entity, each once.
C10_MergedQuotesAreUnion ==
    [][(/\ Dispatched
        /\ IsWellFormed(TheCall, "merge_persons")
        /\ StatusOf(TheContent) = "success") =>
         LET source == PeopleOf(data)[TheCall.arguments.obj["source_name"]]
             target == PeopleOf(data)[TheCall.arguments.obj["target_name"]]
             merged == PeopleOf(data')[TheCall.arguments.obj["target_name"]] IN
         /\ Elems(merged.quotes) = Elems(source.quotes) \cup Elems(target.quotes)
         /\ NoDuplicates(merged.quotes)]_vars

Scalars == {"name", "description", "role", "speaker_id"}

\* C11: Person.merge gives a scalar field of the receiver the other entity's
\* value when the receiver's is empty and the other's is not, and leaves it
\* as it was otherwise; merging an entity whose scalars are all empty changes
\* no scalar of the receiver.
C11_MergeAdoptsOnlyIntoEmpty ==
    [][(/\ Dispatched
        /\ IsWellFormed(TheCall, "merge_persons")
        /\ StatusOf(TheContent) = "success") =>
         LET source == PeopleOf(data)[TheCall.arguments.obj["source_name"]]
             target == PeopleOf(data)[TheCall.arguments.obj["target_name"]]
             merged == PeopleOf(data')[TheCall.arguments.obj["target_name"]] IN
         /\ \A f \in Scalars :
               merged[f] = IF target[f] = EmptyStr /\ source[f] # EmptyStr
                           THEN source[f] ELSE target[f]
         /\ (\A f \in Scalars : source[f] = EmptyStr) =>
               \A f \in Scalars : merged[f] = target[f]]_vars

\* a merge into the entity created under the empty name has given it the
\* source's name and description, and left its role empty
C11_Witness ==
    /\ pc = "await2"
    /\ dispatched[1].name = "merge_persons"
    /\ StatusOf(messages[Len(messages)].content) = "success"
    /\ dispatched[1].arguments.obj["target_name"] = NameE
    /\ PeopleOf(data)[NameE].name = NameA
    /\ PeopleOf(data)[NameE].description = Desc
    /\ PeopleOf(data)[NameE].role = EmptyStr

\* C12: a successful merge_persons(source, target) removes the key source,
\* keeps an entity under the key target, leaves every other entity as it was
\* and makes the people table one entity smaller.
C12_MergeRemovesSourceOnly ==
    [][(/\ Dispatched
        /\ IsWellFormed(TheCall, "merge_persons")
        /\ StatusOf(TheContent) = "success") =>
         LET source_name == TheCall.arguments.obj["source_name"]
             target_name == TheCall.arguments.obj["target_name"]
             before == PeopleOf(data)
             after == PeopleOf(data') IN
         /\ source_name \in DOMAIN before
         /\ source_name \notin DOMAIN after
         /\ target_name \in DOMAIN after
         /\ DOMAIN after = DOMAIN before \ {source_name}
         /\ \A k \in DOMAIN after \ {target_name} : after[k] = before[k]
         /\ Cardinality(DOMAIN after) = Cardinality(DOMAIN before) - 1]_vars

\* "A" has been merged into "B" in a table that also holds a third entity
C12_Witness ==
    /\ pc = "await2"
    /\ dispatched[1].name = "merge_persons"
    /\ StatusOf(messages[Len(messages)].content) = "success"
    /\ dispatched[1].arguments.obj["source_name"] = NameA
    /\ dispatched[1].arguments.obj["target_name"] = NameB
    /\ DOMAIN PeopleOf(data) = {NameE, NameB}

\* C13: merge_persons returns a not-found error, and raises nothing, whenever
\* source_name or target_name is no key of the people table, a store without
\* a people table included.
C13_MergeMissingIsNotFound ==
    [][(/\ pc = "await1" /\ pc' # "await1"
        /\ dispatched' # <<>>
        /\ IsWellFormed(TheCall, "merge_persons")
        /\ \/ TheCall.arguments.obj["source_name"] \notin DOMAIN PeopleOf(data)
           \/ TheCall.arguments.obj["target_name"] \notin DOMAIN PeopleOf(data)) =>
         /\ pc' = "await2"
         /\ TheContent \in
              { [result |-> ErrorResult("source_not_found", TheCall.arguments.obj["source_name"])],
                [result |-> ErrorResult("target_not_found", TheCall.arguments.obj["target_name"])] }]_vars

\* merge_persons has answered source-not-found on a store that never had a
\* people table
C13_Witness ==
    /\ pc = "await2"
    /\ dispatched[1].name = "merge_persons"
    /\ "people" \notin DOMAIN data
    /\ messages[Len(messages)].content =
         [result |-> ErrorResult("source_not_found", dispatched[1].arguments.obj["source_name"])]

\* the value create_person gets for parameter f of a request
Supplied(call, f) == DictGet(call.arguments.obj, f, EmptyStr)

\* C14: create_person(name = n, ...) returns success; afterwards people[n] is
\* an entity with the name, description, role and speaker_id of the request
\* and no quotes, whatever was under n before, and every other key maps to
\* what it mapped to.
C14_CreateStoresExactly ==
    [][(/\ pc = "await1" /\ pc' # "await1"
        /\ dispatched' # <<>>
        /\ IsWellFormed(TheCall, "create_person")
        /\ DOMAIN TheCall.arguments.obj \subseteq Scalars) =>
         LET n == TheCall.arguments.obj["name"]
             before == PeopleOf(data)
             after == PeopleOf(data') IN
         /\ pc' = "await2"
         /\ StatusOf(TheContent) = "success"
         /\ DOMAIN after = DOMAIN before \cup {n}
         /\ after[n] = [name |-> n,
                        description |-> Supplied(TheCall, "description"),
                        role |-> Supplied(TheCall, "role"),
                        speaker_id |-> Supplied(TheCall, "speaker_id"),
                        quotes |-> <<>>]
         /\ \A k \in DOMAIN before \ {n} : after[k] = before[k]]_vars

\* create_person(name = "A") has run in a table that holds another entity with
\* quotes: "A" is stored with empty fields and no quotes, the other is there
C14_Witness ==
    /\ pc = "await2"
    /\ turns = 3
    /\ dispatched[1].name = "create_person"
    /\ dispatched[1].arguments.kind = "object"
    /\ dispatched[1].arguments.obj = ("name" :> NameA)
    /\ DOMAIN PeopleOf(data) = {NameA, NameB}
    /\ PeopleOf(data)[NameA] = Person(NameA, EmptyStr, EmptyStr, EmptyStr)
    /\ PeopleOf(data)[NameB].quotes # <<>>

\* the case-insensitive test of the claim on one field of an entity
FieldContains(person, f, keyword) == IsSubstr(Lower(keyword), Lower(person[f]))

\* C15: lookup_person(keyword) returns the entities whose name, description
\* or role contains the keyword without regard to case: status success with
\* their summaries and their number when there is one, status no_matches when
\* there is none, also where the name of an entity is not its key.
C15_LookupMatchesFields ==
    [][(/\ Dispatched
        /\ IsWellFormed(TheCall, "lookup_person")
        /\ DOMAIN TheCall.arguments.obj = {"keyword"}
        /\ IsStr(TheCall.arguments.obj["keyword"])) =>
         LET keyword == TheCall.arguments.obj["keyword"]
             people == PeopleOf(data)
             expected == {k \in DOMAIN people :
                            \E f \in {"name", "description", "role"} :
                               FieldContains(people[k], f, keyword)} IN
         IF expected = {}
         THEN StatusOf(TheContent) = "no_matches"
         ELSE /\ StatusOf(TheContent) = "success"
              /\ TheContent.result.count = Cardinality(expected)
              /\ TheContent.result.results =
                   [k \in expected |-> [name |-> people[k].name, role |-> people[k].role,
                                        description |-> people[k].description]]]_vars

\* C16: a tool call whose name is no tool, with arguments that parse, gets an
\* error result that names the tool; no handler runs and the store is as it
\* was.
C16_UnknownToolIsError ==
    [][(/\ pc = "await1" /\ pc' # "await1"
        /\ dispatched' # <<>>
        /\ TheCall.name \notin tool_handlers
        /\ TheCall.arguments.kind # "garbage") =>
         /\ pc' = "await2"
         /\ "error" \in DOMAIN TheContent
         /\ TheContent.error.kind = "unknown_tool"
         /\ "tool" \in DOMAIN TheContent.error
         /\ TheContent.error.tool = TheCall.name
         /\ data' = data]_vars

\* "delete_person" has been asked for, with an object for arguments, on a
\* store that holds an entity
C16_Witness ==
    /\ pc = "await2"
    /\ dispatched[1].name = "delete_person"
    /\ dispatched[1].arguments.kind = "object"
    /\ messages[Len(messages)].content = UnknownToolError("delete_person")
    /\ DOMAIN PeopleOf(data) = {NameA}
    /\ data["last_operation"] = "create_person"

\* C17: a tool call whose arguments do not parse gets an error result that
\* holds the tool name and the raw arguments; no handler runs and the store is
\* as it was.
C17_BadPayloadIsError ==
    [][(/\ pc = "await1" /\ pc' # "await1"
        /\ dispatched' # <<>>
        /\ TheCall.arguments.kind = "garbage") =>
         /\ pc' = "await2"
         /\ "error" \in DOMAIN TheContent
         /\ TheContent.error.kind = "invalid_json"
         /\ DOMAIN TheContent.error = {"kind", "tool", "raw"}
         /\ TheContent.error.tool = TheCall.name
         /\ TheContent.error.raw = TheCall.arguments
         /\ data' = data]_vars

\* create_person has been asked for with arguments that do not parse, on a
\* store that holds an entity
C17_Witness ==
    /\ pc = "await2"
    /\ dispatched[1].name = "create_person"
    /\ dispatched[1].arguments = Garbage
    /\ messages[Len(messages)].content = InvalidJsonError("create_person", Garbage)
    /\ DOMAIN PeopleOf(data) = {NameB}
    /\ data["last_operation"] = "create_person"

\* what update_person or merge_persons returns for a request on the store as
\* it is
OutcomeOf(r) == CallHandler(r.name, r.arguments.obj, data).result

\* the outcome a result reports: one of the domain errors, or success
OutcomeClass(result) ==
    IF "error" \in DOMAIN result
    THEN IF result.error.kind = "self_merge" THEN "self_merge" ELSE "not_found"
    ELSE IF result.status = "no_change" THEN "no_change" ELSE "success"

\* the status field of a result, "#absent" where the result has none
StatusField(result) == IF "status" \in DOMAIN result THEN result.status ELSE "#absent"

\* C18: the results of update_person and merge_persons for not-found,
\* self-merge and no-op update carry a status that tells each of them from
\* success and from the others: two results that report different outcomes
\* never have the same status field.
C18_StatusTellsOutcomesApart ==
    LET outcomes == { <<OutcomeClass(OutcomeOf(r)), StatusField(OutcomeOf(r))>> :
                        r \in UpdateRequests \cup MergeRequests } IN
    \A o1, o2 \in outcomes : o1[1] # o2[1] => o1[2] # o2[2]

\* C19: runs of run_pipeline share no entity state: when a run makes its first
\* model call its store is empty, whatever the runs before it stored.
C19_RunStartsEmpty ==
    pc = "await1" => data = EmptyDict /\ PeopleOf(data) = EmptyDict

\* the second run has looked up the empty keyword, which every entity
\* matches, and found nobody
C19_Witness ==
    /\ turns = 2
    /\ pc = "await2"
    /\ dispatched[1].name = "lookup_person"
    /\ dispatched[1].arguments.kind = "object"
    /\ dispatched[1].arguments.obj = ("keyword" :> EmptyStr)
    /\ StatusOf(messages[Len(messages)].content) = "no_matches"
    /\ PeopleOf(data) = EmptyDict

\* C20: a turn in which the model first asks for create_person(name = n,
\* role = r) and then answers with text t ends with the store holding under n
\* an entity with role r, and returns t.
C20_CreateThenAnswer ==
    (/\ pc = "done"
     /\ Len(responses) = 2
     /\ Len(responses[1].tool_calls) = 1
     /\ responses[1].tool_calls[1].name = "create_person"
     /\ responses[1].tool_calls[1].arguments.kind = "object"
     /\ DOMAIN responses[1].tool_calls[1].arguments.obj = {"name", "role"}) =>
        LET n == responses[1].tool_calls[1].arguments.obj["name"]
            r == responses[1].tool_calls[1].arguments.obj["role"] IN
        /\ n \in DOMAIN PeopleOf(data)
        /\ PeopleOf(data)[n].name = n
        /\ PeopleOf(data)[n].role = r
        /\ final = responses[2].content

\* the first turn asked for create_person(name = "A", role = r) and was
\* answered "p": the store holds "A" with role r and the turn returned "p"
C20_Witness ==
    /\ pc = "done"
    /\ turns = 1
    /\ responses[1].tool_calls =
         <<ToolCall("call_1", CreateWithRole)>>
    /\ responses[2].content = AnswerP
    /\ PeopleOf(data) = (NameA :> [Person(NameA, EmptyStr, Role, EmptyStr) EXCEPT !.quotes = <<>>])
    /\ final = AnswerP

\* C21: update_person on an existing person changes only the fields of the
\* request: a scalar the request lacks keeps its value, a scalar it gives,
\* the empty string included, takes the given value, the quotes keep their
\* content and order, and a given quote becomes the last one even when an
\* equal quote is there already.
C21_UpdateChangesOnlySupplied ==
    [][(/\ Dispatched
        /\ IsWellFormed(TheCall, "update_person")
        /\ DOMAIN TheCall.arguments.obj \subseteq HandlerParams("update_person")
        /\ TheCall.arguments.obj["person_name"] \in DOMAIN PeopleOf(data)
        /\ "result" \in DOMAIN TheContent) =>
         LET args == TheCall.arguments.obj
             old == PeopleOf(data)[args["person_name"]]
             after == PeopleOf(data')
             expected == [f \in Scalars \cup {"quotes"} |->
                            IF f = "quotes"
                            THEN IF "quote" \in DOMAIN args
                                 THEN Append(old.quotes, args["quote"]) ELSE old.quotes
                            ELSE IF f \in DOMAIN args THEN args[f] ELSE old[f]]
             keys == {args["person_name"]}
                     \cup (IF "name" \in DOMAIN args THEN {args["name"]} ELSE {}) IN
         \E k \in keys \cap DOMAIN after : after[k] = expected]_vars

\* update_person has given "A" the quote "q" a second time
C21_Witness ==
    /\ pc = "await2"
    /\ dispatched[1].name = "update_person"
    /\ dispatched[1].arguments.kind = "object"
    /\ dispatched[1].arguments.obj = ("person_name" :> NameA) @@ ("quote" :> QuoteQ)
    /\ StatusOf(messages[Len(messages)].content) = "success"
    /\ PeopleOf(data)[NameA].quotes = <<QuoteQ, QuoteQ>>

\* the summary a successful call of a tool writes, from its request and result
SummaryOf(call, result) ==
    LET args == call.arguments.obj IN
    CASE call.name = "create_person" -> [what |-> "Created person", who |-> args["name"]]
      [] call.name = "update_person" -> [what |-> "Updated person", who |-> result.person_name]
      [] call.name = "lookup_person" ->
            [what |-> "Found", who |-> args["keyword"], n |-> result.count]
      [] call.name = "merge_persons" ->
            [what |-> "Merged", who |-> args["source_name"], into |-> args["target_name"]]

\* C22: after a handler call that returns status success the store's
\* last_operation is the name of the tool just executed and its
\* last_result_summary is the summary of that call, whatever an earlier call
\* left there.
C22_SuccessWritesBookkeeping ==
    [][(/\ Dispatched
        /\ StatusOf(TheContent) = "success") =>
         /\ TheCall.name \in tool_handlers
         /\ {"last_operation", "last_result_summary"} \subseteq DOMAIN data'
         /\ data'["last_operation"] = TheCall.name
         /\ data'["last_result_summary"] = SummaryOf(TheCall, TheContent.result)]_vars

\* a merge has succeeded after the two create_person calls it needs, and the
\* bookkeeping keys are the merge's
C22_Witness ==
    /\ pc = "await2"
    /\ turns = 3
    /\ dispatched[1].name = "merge_persons"
    /\ StatusOf(messages[Len(messages)].content) = "success"
    /\ data["last_operation"] = "merge_persons"
    /\ data["last_result_summary"] = [what |-> "Merged", who |-> NameA, into |-> NameB]

\* the content of the tool message for a call of a tool with string values
\* for the argument names S, on the store as it is
ContentFor(tool, S) ==
    handle_tool_call(ToolCall("call_1", Request(tool, Obj([k \in S |-> NameA]))), data).msg.content

IsArgumentMismatch(content) ==
    "error" \in DOMAIN content /\ content.error.kind = "handler_type_error"

\* C23: the registry has a schema for each of the four tools; its parameter
\* names are the argument names of the handler (context aside), its required
\* parameters the handler's arguments without a default, and a call with all
\* required and any of the optional names gets no argument-mismatch error.
C23_SchemaMirrorsHandlers ==
    /\ {tool_definitions[i].name : i \in 1..Len(tool_definitions)} = tool_handlers
    /\ \A i \in 1..Len(tool_definitions) :
         LET schema == tool_definitions[i] IN
         /\ schema.properties = HandlerParams(schema.name)
         /\ schema.required = HandlerRequired(schema.name)
         /\ \A S \in SUBSET schema.properties :
               schema.required \subseteq S => ~IsArgumentMismatch(ContentFor(schema.name, S))

\* create_person has been dispatched with its required name and its three
\* optional ones, and was answered with the handler's result
C23_Witness ==
    /\ pc = "await2"
    /\ dispatched[1].name = "create_person"
    /\ dispatched[1].arguments.kind = "object"
    /\ DOMAIN dispatched[1].arguments.obj = {"name", "description", "role", "speaker_id"}
    /\ ~IsArgumentMismatch(messages[Len(messages)].content)
    /\ StatusOf(messages[Len(messages)].content) = "success"

\* C24: whatever the outcome of handle_tool_call (invalid payload, unknown
\* tool, argument mismatch, handler result), the message it returns has role
\* "tool" and the id of the tool call that was dispatched.
C24_ToolMessageAddressed ==
    [][Dispatched =>
         LET msg == messages'[Len(messages')] IN
         /\ DOMAIN msg = {"role", "tool_call_id", "content"}
         /\ msg.role = "tool"
         /\ msg.tool_call_id = TheCall.id
         /\ \/ "result" \in DOMAIN msg.content
            \/ msg.content.error.kind \in {"invalid_json", "unknown_tool", "handler_type_error"}]_vars

\* an argument mismatch has been answered with a tool message that carries
\* the id of the call
C24_Witness ==
    /\ pc = "await2"
    /\ IsArgumentMismatch(messages[Len(messages)].content)
    /\ messages[Len(messages)].role = "tool"
    /\ messages[Len(messages)].tool_call_id = dispatched[1].id
    /\ dispatched[1].id = "call_1"

\* C25: while update_person renames an entity, a second reader of the same
\* store never sees the people table with both the old and the new key, nor
\* with neither.
C25_RenameLooksAtomic ==
    (pc \in RekeyPositions /\ observed.read) =>
        (OldKey \in observed.keys) # (NewKey \in observed.keys)

\* C26: when a turn has returned, the last message of the conversation is an
\* assistant message with the returned final answer as content, and the
\* message before it is not an assistant message, so the answer was appended
\* once, with a tool call in the turn and without.
C26_LastMessageIsFinalAnswer ==
    pc = "done" =>
        LET last == messages[Len(messages)] IN
        /\ last.role = "assistant"
        /\ last.content = final
        /\ messages[Len(messages) - 1].role # "assistant"
        /\ Len(messages) = IF dispatched = <<>> THEN 3 ELSE 5

\* a turn without a tool call has returned "p"
C26_Witness ==
    /\ pc = "done"
    /\ responses[1].tool_calls = <<>>
    /\ dispatched = <<>>
    /\ final = AnswerP
    /\ messages[Len(messages)] = AssistantMsg(responses[1])
    /\ messages[Len(messages)].content = AnswerP

\* C27: the dispatcher parses the arguments before it looks the tool up: a
\* call with arguments that do not parse and a name that is no tool gets the
\* invalid-payload error, with the tool name and the raw arguments, not the
\* unknown-tool error.
C27_ParseBeforeResolve ==
    [][(/\ pc = "await1" /\ pc' # "await1"
        /\ dispatched' # <<>>
        /\ TheCall.name \notin tool_handlers
        /\ TheCall.arguments.kind = "garbage") =>
         /\ pc' = "await2"
         /\ TheContent # UnknownToolError(TheCall.name)
         /\ TheContent = InvalidJsonError(TheCall.name, TheCall.arguments)]_vars

\* "delete_person" has been asked for with arguments that do not parse
C27_Witness ==
    /\ pc = "await2"
    /\ dispatched[1].name = "delete_person"
    /\ dispatched[1].arguments = Garbage
    /\ messages[Len(messages)].content = InvalidJsonError("delete_person", Garbage)

\* the messages a turn added to the two it was entered with
Added == SubSeq(messages, 3, Len(messages))

\* C28: a turn only appends to the conversation: when it is over, the
\* messages it was entered with are still the first ones, and it has added
\* one assistant message when no tool was requested, and the assistant's
\* tool request, the tool result and the assistant's final answer, in this
\* order, when one was.
C28_TurnAppendsOnly ==
    pc \in {"done", "raised"} =>
        /\ SubSeq(messages, 1, 2) = <<SystemMsg, UserMsg>>
        /\ IF responses[1].tool_calls = <<>>
           THEN /\ Len(Added) = 1
                /\ Added[1].role = "assistant"
           ELSE /\ Len(Added) = 3
                /\ Added[1].role = "assistant"
                /\ Added[1].tool_calls = responses[1].tool_calls
                /\ Added[2].role = "tool"
                /\ Added[3].role = "assistant"
                /\ Added[3].content = final

\* C29: in the store build_context_from_transcript produces every key of the
\* people table is the name of the entity it maps to, and update_person finds
\* each entity under its name.
C29_SeededKeysAreNames ==
    pc = "seeded" =>
        \A k \in DOMAIN PeopleOf(data) :
            LET name == PeopleOf(data)[k].name IN
            /\ name = k
            /\ OutcomeClass(CallHandler("update_person",
                                        ("person_name" :> name) @@ ("role" :> Role),
                                        data).result) # "not_found"

\* C30: update_person leaves the number of entities of the people table as
\* it was and leaves every entity other than the one under person_name under
\* its key and as it was, also when the new name of a rename is the key of
\* another entity.
C30_UpdateTouchesOneEntity ==
    [][(/\ Dispatched
        /\ IsWellFormed(TheCall, "update_person")
        /\ DOMAIN TheCall.arguments.obj \subseteq HandlerParams("update_person")) =>
         LET before == PeopleOf(data)
             after == PeopleOf(data') IN
         /\ Cardinality(DOMAIN after) = Cardinality(DOMAIN before)
         /\ \A k \in DOMAIN before \ {TheCall.arguments.obj["person_name"]} :
               k \in DOMAIN after /\ after[k] = before[k]]_vars

\* the content of a tool message that reports an error of the dispatcher or of
\* a handler, or the status no_change
IsErrorOrNoChange(content) ==
    \/ "error" \in DOMAIN content
    \/ "error" \in DOMAIN content.result
    \/ content.result.status = "no_change"

\* C31: when a dispatched call ends in an error result (invalid payload,
\* unknown tool, argument mismatch, entity not found, self-merge) or in status
\* no_change, the store, people table and bookkeeping keys alike, is as it
\* was before the call.
C31_ErrorLeavesStore ==
    [][(Dispatched /\ IsErrorOrNoChange(TheContent)) => data' = data]_vars

====
